---- MODULE Spec2Model ----
(***************************************************************************)
(* Model of the task-tracking HTTP API of src/main.py: the `task` table    *)
(* of the SQLite store, the five CRUD handlers, the keyword classifier,    *)
(* and the steps of two update_task requests running in separate sessions. *)
(*                                                                         *)
(* Encoding of values.  A value that may be null (Python None, JSON null,  *)
(* SQL NULL) is a sequence of length 0 or 1: None is <<>> and Some(x) is   *)
(* <<x>>.  A key of a JSON request body is either absent (Unset, <<>>) or  *)
(* present with such a value (Set(v), <<v>>), which is what pydantic's     *)
(* fields_set records.  A text is a sequence of one-character strings.     *)
(***************************************************************************)
EXTENDS Integers, Sequences, FiniteSets, TLC

VARIABLES
    tasks,      \* the rows of table `task`, in rowid order
    request,    \* the request handled last
    response,   \* the response to it
    deleted,    \* history: the ids whose row delete_task has removed
    sessions,   \* the two concurrent update_task requests: position and session state
    commits,    \* history: the order in which the concurrent requests committed
    text,       \* the description given to /tasks/analyze
    prediction  \* the response of /tasks/analyze

vars == <<tasks, request, response, deleted, sessions, commits, text, prediction>>

-----------------------------------------------------------------------------
(* Bounds *)

MaxId == 2          \* create is not issued once the next rowid would exceed it
MaxPieces == 2      \* number of pieces a classifier text is made of

-----------------------------------------------------------------------------
(* Values *)

None == <<>>
Some(x) == <<x>>
Unset == <<>>
Set(v) == <<v>>

\* le=100 of the limit query parameter
MaxLimit == 100

\* default of the limit query parameter
DefaultLimit == 100

\* class TaskBase: the fields shared by the table and the request shapes
TaskBase == {"title", "description", "is_completed"}

\* class Task(TaskBase, table=True): TaskBase plus the primary key
Task(id, title, description, is_completed) ==
    [id |-> id, title |-> title, description |-> description,
     is_completed |-> is_completed]

\* The columns of table `task` created NOT NULL: id (primary key), title
\* (str) and is_completed (bool); description is Optional[str].
NotNullColumns == {"id", "title", "is_completed"}

IdsOf(table) == {table[i].id : i \in DOMAIN table}

-----------------------------------------------------------------------------
(* Request bodies as they arrive, before validation *)

Body(id, title, description, is_completed) ==
    [id |-> id, title |-> title, description |-> description,
     is_completed |-> is_completed]

NoBody == Body(Unset, Unset, Unset, Unset)

\* POST /tasks/ bodies tried: a title with the optional fields omitted or
\* given, an empty title, a missing title, a null description, a null
\* is_completed, and an extra "id" key.
CreateBodies ==
    { Body(Unset, Set(Some("a")), d, c) :
        d \in {Unset, Set(Some("d"))}, c \in {Unset, Set(Some(TRUE))} }
    \cup { Body(Unset, Set(Some("")), Unset, Unset),
           Body(Unset, Unset, Set(Some("d")), Unset),
           Body(Unset, Set(Some("a")), Set(None), Unset),
           Body(Unset, Set(Some("a")), Unset, Set(None)),
           Body(Set(Some(1)), Set(Some("a")), Unset, Unset) }

\* PATCH /tasks/{id} bodies tried: the subsets of the fields, a field given
\* as null, and an extra "id" key.
UpdateBodies ==
    { Body(Unset, t, d, c) :
        t \in {Unset, Set(Some("a"))},
        d \in {Unset, Set(Some("d"))},
        c \in {Unset, Set(Some(TRUE))} }
    \cup { Body(Unset, Set(None), Unset, Unset),
           Body(Unset, Unset, Set(None), Set(Some(FALSE))),
           Body(Unset, Set(Some("")), Unset, Set(None)),
           Body(Set(Some(1)), Unset, Unset, Unset),
           Body(Set(Some(2)), Unset, Unset, Set(Some(TRUE))) }

\* GET /tasks/ query parameters tried
Offsets == {-1, 0, 1, MaxId}
Limits == {-1, 0, 1, MaxLimit, MaxLimit + 1}

Request(op, task_id, body, offset, limit) ==
    [op |-> op, task_id |-> task_id, body |-> body, offset |-> offset,
     limit |-> limit]

-----------------------------------------------------------------------------
(* Responses *)

Response(op, status, body, detail) ==
    [op |-> op, status |-> status, body |-> body, detail |-> detail]

\* response_model=Task: the full stored shape
TaskResponse(op, row) == Response(op, 200, <<row>>, "")

\* raise HTTPException(status_code=404, detail="Task not found")
NotFound(op) == Response(op, 404, <<>>, "Task not found")

\* request validation failed before the handler ran
ValidationError(op) == Response(op, 422, <<>>, "validation error")

\* an exception left the handler (IntegrityError of the commit)
ServerError(op) == Response(op, 500, <<>>, "Internal Server Error")

-----------------------------------------------------------------------------
(* The session and the storage engine *)

\* session.get(Task, task_id): the row with that primary key, or None
SessionGet(table, task_id) ==
    IF \E i \in DOMAIN table : table[i].id = Some(task_id)
    THEN Some(table[CHOOSE i \in DOMAIN table : table[i].id = Some(task_id)])
    ELSE None

\* A rowid taken from the number of rows instead of the largest rowid
NextRowIdByCount(table) == Len(table) + 1

\* The rowid SQLite gives a row inserted with id NULL into a table whose
\* primary key is INTEGER PRIMARY KEY without AUTOINCREMENT: one more than
\* the largest rowid in the table, 1 for an empty table.
NextRowId(table) ==
    IF table = <<>> THEN 1
    ELSE 1 + (CHOOSE m \in {table[i].id[1] : i \in DOMAIN table} :
                 \A i \in DOMAIN table : table[i].id[1] <= m)

\* session.add(db_task); session.commit() of a new object: INSERT
Insert(table, db_task) ==
    Append(table, [db_task EXCEPT !.id = Some(NextRowId(table))])

\* An update that clears every field the request did not send
sqlmodel_update_all(db_task, task_data) ==
    [f \in DOMAIN db_task |->
        IF f \notin DOMAIN task_data THEN db_task[f]
        ELSE IF task_data[f] # Unset THEN task_data[f][1] ELSE None]

\* db_task.sqlmodel_update(task_data): setattr for every key of task_data
\* that is a field of Task
sqlmodel_update(db_task, task_data) ==
    [f \in DOMAIN db_task |->
        IF f \in DOMAIN task_data /\ task_data[f] # Unset
        THEN task_data[f][1] ELSE db_task[f]]

\* The attributes of a loaded object whose value differs from the loaded one
Changed(obj, loaded) == {f \in DOMAIN obj : obj[f] # loaded[f]}

\* session.add(db_task); session.commit() of a loaded object: the flush
\* emits UPDATE task SET <changed columns> WHERE id = <loaded id>, and no
\* statement when no attribute differs from its loaded value.  A NULL in a
\* NOT NULL column, a duplicate primary key or a missing row raises and the
\* transaction is rolled back.
Flush(table, obj, loaded) ==
    LET ch == Changed(obj, loaded) IN
    IF ch = {} THEN [ok |-> TRUE, table |-> table]
    ELSE IF \/ \E f \in ch \cap NotNullColumns : obj[f] = None
            \/ "id" \in ch /\ obj.id \in IdsOf(table)
            \/ loaded.id \notin IdsOf(table)
    THEN [ok |-> FALSE, table |-> table]
    ELSE [ok |-> TRUE,
          table |-> [i \in DOMAIN table |->
                       IF table[i].id = loaded.id
                       THEN [f \in DOMAIN obj |->
                               IF f \in ch THEN obj[f] ELSE table[i][f]]
                       ELSE table[i]]]

\* A delete that leaves the row in the table
RemoveNothing(table, task_id) == table

\* session.delete(task); session.commit(): DELETE FROM task WHERE id = ?
Remove(table, task_id) ==
    SelectSeq(table, LAMBDA row : row.id # Some(task_id))

\* select(Task).offset(offset).limit(limit) on SQLite: a negative OFFSET
\* counts as 0 and a negative LIMIT as no limit.
SelectOffsetLimit(table, offset, limit) ==
    LET off == IF offset < 0 THEN 0 ELSE offset
        last == IF limit < 0 \/ off + limit > Len(table)
                THEN Len(table) ELSE off + limit
    IN  SubSeq(table, off + 1, last)

-----------------------------------------------------------------------------
(* Request validation *)

\* A title constrained to min_length=1
TaskCreateValidNonEmpty(body) ==
    /\ body.title # Unset
    /\ body.title[1] # None
    /\ body.title[1] # Some("")
    /\ body.is_completed # Unset => body.is_completed[1] # None

\* class TaskCreate(TaskBase): title is a required str; description is
\* Optional[str] = None; is_completed is bool = False; other keys are ignored.
TaskCreateValid(body) ==
    /\ body.title # Unset
    /\ body.title[1] # None
    /\ body.is_completed # Unset => body.is_completed[1] # None

\* is_completed defaulting to True
TaskCreateDefaultTrue(body) ==
    [title |-> body.title[1],
     description |-> IF body.description = Unset THEN None
                     ELSE body.description[1],
     is_completed |-> IF body.is_completed = Unset THEN Some(TRUE)
                      ELSE body.is_completed[1]]

TaskCreate(body) ==
    [title |-> body.title[1],
     description |-> IF body.description = Unset THEN None
                     ELSE body.description[1],
     is_completed |-> IF body.is_completed = Unset THEN Some(FALSE)
                      ELSE body.is_completed[1]]

\* An update shape that also declares id
TaskUpdateWithId(body) == body

\* class TaskUpdate: the three fields, all Optional with default None, other
\* keys ignored; model_dump(exclude_unset=True) keeps the keys that were sent.
TaskUpdate(body) ==
    [title |-> body.title, description |-> body.description,
     is_completed |-> body.is_completed]

\* limit: int = Query(default=100, le=100)
LimitValid(limit) == limit <= MaxLimit

-----------------------------------------------------------------------------
(* The handlers: the table and the response each one produces *)

Result(table, resp) == [table |-> table, response |-> resp]

\* POST /tasks/
create_task(table, body) ==
    IF ~TaskCreateValid(body) THEN Result(table, ValidationError("create"))
    ELSE LET task == TaskCreate(body)
             db_task == Task(None, task.title, task.description,
                             task.is_completed)
             stored == Insert(table, db_task)
         IN  Result(stored,
                    TaskResponse("create", stored[Len(stored)]))

\* GET /tasks/
read_tasks(table, offset, limit) ==
    IF ~LimitValid(limit) THEN Result(table, ValidationError("list"))
    ELSE Result(table,
                Response("list", 200,
                         SelectOffsetLimit(table, offset, limit), ""))

\* GET /tasks/{task_id}
read_task(table, task_id) ==
    LET task == SessionGet(table, task_id) IN
    IF task = None THEN Result(table, NotFound("read"))
    ELSE Result(table, TaskResponse("read", task[1]))

\* PATCH /tasks/{task_id}
update_task(table, task_id, body) ==
    LET db_task == SessionGet(table, task_id) IN
    IF db_task = None THEN Result(table, NotFound("update"))
    ELSE LET task_data == TaskUpdate(body)
             obj == sqlmodel_update(db_task[1], task_data)
             flushed == Flush(table, obj, db_task[1])
         IN  IF ~flushed.ok THEN Result(table, ServerError("update"))
             ELSE Result(flushed.table,
                         TaskResponse("update",
                             SessionGet(flushed.table, obj.id[1])[1]))

\* A delete without the not-found check
delete_task_unchecked(table, task_id) ==
    Result(Remove(table, task_id), Response("delete", 200, <<>>, "ok"))

\* DELETE /tasks/{task_id}
delete_task(table, task_id) ==
    LET task == SessionGet(table, task_id) IN
    IF task = None THEN Result(table, NotFound("delete"))
    ELSE Result(Remove(table, task_id), Response("delete", 200, <<>>, "ok"))

-----------------------------------------------------------------------------
(* Specification of the handlers, one request at a time *)

NoSessions == <<>>
NoPrediction == [description |-> <<>>, predicted_sentiment |-> ""]

Init ==
    /\ tasks = <<>>
    /\ request = Request("none", 0, NoBody, 0, DefaultLimit)
    /\ response = Response("none", 0, <<>>, "")
    /\ deleted = {}
    /\ sessions = NoSessions
    /\ commits = <<>>
    /\ text = <<>>
    /\ prediction = NoPrediction

\* One request handled from start to end: r is what its handler produces
Handle(req, r) ==
    /\ request' = req
    /\ tasks' = r.table
    /\ response' = r.response
    /\ UNCHANGED <<sessions, commits, text, prediction>>

CreateTask ==
    /\ NextRowId(tasks) <= MaxId
    /\ \E body \in CreateBodies :
         Handle(Request("create", 0, body, 0, DefaultLimit),
                create_task(tasks, body))
    /\ UNCHANGED deleted

ReadTasks ==
    /\ \E offset \in Offsets, limit \in Limits :
         Handle(Request("list", 0, NoBody, offset, limit),
                read_tasks(tasks, offset, limit))
    /\ UNCHANGED deleted

ReadTask ==
    /\ \E task_id \in 1..MaxId :
         Handle(Request("read", task_id, NoBody, 0, DefaultLimit),
                read_task(tasks, task_id))
    /\ UNCHANGED deleted

UpdateTask ==
    /\ \E task_id \in 1..MaxId, body \in UpdateBodies :
         Handle(Request("update", task_id, body, 0, DefaultLimit),
                update_task(tasks, task_id, body))
    /\ UNCHANGED deleted

DeleteTask ==
    /\ \E task_id \in 1..MaxId :
         Handle(Request("delete", task_id, NoBody, 0, DefaultLimit),
                delete_task(tasks, task_id))
    /\ UNCHANGED deleted

Next == CreateTask \/ ReadTasks \/ ReadTask \/ UpdateTask \/ DeleteTask

Spec == Init /\ [][Next]_vars

-----------------------------------------------------------------------------
(* The handlers that read or write single rows, with the ids removed by
   delete_task recorded; read_tasks, which changes nothing, is left out. *)

DeleteTaskRecorded ==
    \E task_id \in 1..MaxId :
        /\ Handle(Request("delete", task_id, NoBody, 0, DefaultLimit),
                  delete_task(tasks, task_id))
        /\ deleted' = IF response'.status = 200
                      THEN deleted \cup {task_id} ELSE deleted

NextHistory == CreateTask \/ ReadTask \/ UpdateTask \/ DeleteTaskRecorded

SpecHistory == Init /\ [][NextHistory]_vars

-----------------------------------------------------------------------------
(* Two update_task requests for the same task, each in its own session
   (get_session), their steps interleaved.  The storage engine admits one
   write transaction at a time, so the UPDATE and COMMIT of one commit() are
   one step; the reads run outside any transaction. *)

Clients == {1, 2}

\* The task both requests address, as create_task stored it
StoredRows ==
    { Task(Some(1), Some(t), None, Some(c)) :
        t \in {"a", "b"}, c \in {FALSE, TRUE} }

\* The PATCH bodies of the two requests: titles and flags, none of them null
PatchBodies ==
    { Body(Unset, t, Unset, c) :
        t \in {Unset, Set(Some("a")), Set(Some("b"))},
        c \in {Unset, Set(Some(TRUE))} }

Session(pc, body, db_task, loaded, resp) ==
    [pc |-> pc, task_id |-> 1, body |-> body, db_task |-> db_task,
     loaded |-> loaded, response |-> resp]

InitConcurrent ==
    /\ tasks \in {<<row>> : row \in StoredRows}
    /\ request = Request("none", 0, NoBody, 0, DefaultLimit)
    /\ response = Response("none", 0, <<>>, "")
    /\ deleted = {}
    /\ sessions \in [Clients ->
                       {Session("start", body, None, None,
                                Response("none", 0, <<>>, "")) :
                          body \in PatchBodies}]
    /\ commits = <<>>
    /\ text = <<>>
    /\ prediction = NoPrediction

Rest == UNCHANGED <<request, response, deleted, text, prediction>>

\* db_task = session.get(Task, task_id), and the 404 when there is none
UpdateGet ==
    \E c \in Clients :
        LET s == sessions[c]
            db_task == SessionGet(tasks, s.task_id)
        IN  /\ s.pc = "start"
            /\ sessions' = [sessions EXCEPT ![c] =
                  IF db_task = None
                  THEN [s EXCEPT !.pc = "done",
                                 !.response = NotFound("update")]
                  ELSE [s EXCEPT !.pc = "loaded", !.db_task = db_task,
                                 !.loaded = db_task]]
            /\ UNCHANGED <<tasks, commits>>
            /\ Rest

\* task_data = task_update.model_dump(exclude_unset=True);
\* db_task.sqlmodel_update(task_data)
UpdatePatch ==
    \E c \in Clients :
        LET s == sessions[c] IN
        /\ s.pc = "loaded"
        /\ sessions' = [sessions EXCEPT ![c] =
              [s EXCEPT !.pc = "patched",
                        !.db_task = Some(sqlmodel_update(s.db_task[1],
                                                         TaskUpdate(s.body)))]]
        /\ UNCHANGED <<tasks, commits>>
        /\ Rest

\* session.add(db_task); session.commit()
UpdateCommit ==
    \E c \in Clients :
        LET s == sessions[c]
            flushed == Flush(tasks, s.db_task[1], s.loaded[1])
        IN  /\ s.pc = "patched"
            /\ IF flushed.ok
               THEN /\ tasks' = flushed.table
                    /\ commits' = Append(commits, c)
                    /\ sessions' = [sessions EXCEPT ![c].pc = "committed"]
               ELSE /\ sessions' = [sessions EXCEPT ![c] =
                          [s EXCEPT !.pc = "done",
                                    !.response = ServerError("update")]]
                    /\ UNCHANGED <<tasks, commits>>
            /\ Rest

\* session.refresh(db_task); return db_task
UpdateRefresh ==
    \E c \in Clients :
        LET s == sessions[c]
            row == SessionGet(tasks, s.db_task[1].id[1])
        IN  /\ s.pc = "committed"
            /\ sessions' = [sessions EXCEPT ![c] =
                  [s EXCEPT !.pc = "done",
                            !.db_task = row,
                            !.response = IF row = None
                                         THEN ServerError("update")
                                         ELSE TaskResponse("update", row[1])]]
            /\ UNCHANGED <<tasks, commits>>
            /\ Rest

NextConcurrent == UpdateGet \/ UpdatePatch \/ UpdateCommit \/ UpdateRefresh

SpecConcurrent == InitConcurrent /\ [][NextConcurrent]_vars

\* C9: when two update requests for the same existing id interleave, both
\* complete with the full Task shape and, for every field set by both
\* patches, the value stored after both have committed is the value from the
\* request that committed last.
ConcurrentUpdatesLastCommitWins ==
    (\A c \in Clients : sessions[c].pc = "done") =>
        /\ \A c \in Clients :
              /\ sessions[c].response.status = 200
              /\ Len(sessions[c].response.body) = 1
              /\ sessions[c].response.body[1].id = Some(sessions[c].task_id)
        /\ Len(commits) = Cardinality(Clients)
        /\ \A f \in TaskBase :
              (\A c \in Clients : sessions[c].body[f] # Unset) =>
                 tasks[1][f] = sessions[commits[Len(commits)]].body[f][1]

-----------------------------------------------------------------------------
(* The classifier *)

UpperCase == <<"A", "B", "C", "D", "E", "F", "G", "H", "I", "J", "K", "L", "M",
               "N", "O", "P", "Q", "R", "S", "T", "U", "V", "W", "X", "Y", "Z">>
LowerCase == <<"a", "b", "c", "d", "e", "f", "g", "h", "i", "j", "k", "l", "m",
               "n", "o", "p", "q", "r", "s", "t", "u", "v", "w", "x", "y", "z">>

\* str.lower(): every upper-case letter replaced by its lower-case form
lower(s) ==
    [i \in DOMAIN s |->
        IF \E n \in DOMAIN UpperCase : UpperCase[n] = s[i]
        THEN LowerCase[CHOOSE n \in DOMAIN UpperCase : UpperCase[n] = s[i]]
        ELSE s[i]]

\* k in s, for strings
In(k, s) ==
    \E i \in 0..(Len(s) - Len(k)) : SubSeq(s, i + 1, i + Len(k)) = k

urgent == <<"u", "r", "g", "e", "n", "t">>
fail == <<"f", "a", "i", "l">>
error == <<"e", "r", "r", "o", "r">>
learn == <<"l", "e", "a", "r", "n">>
buy == <<"b", "u", "y">>

\* The three labels; in the source each ends in a coloured circle
Critical == "Critical"
Growth == "Growth"
Neutral == "Neutral"

\* A classifier that compares without lower-casing
simple_ai_model_as_typed(s) ==
    IF In(urgent, s) \/ In(fail, s) \/ In(error, s) THEN Critical
    ELSE IF In(learn, s) \/ In(buy, s) THEN Growth
    ELSE Neutral

simple_ai_model(s) ==
    IF In(urgent, lower(s)) \/ In(fail, lower(s)) \/ In(error, lower(s))
    THEN Critical
    ELSE IF In(learn, lower(s)) \/ In(buy, lower(s)) THEN Growth
    ELSE Neutral

\* POST /tasks/analyze
analyze_task_sentiment(description) ==
    [description |-> description,
     predicted_sentiment |-> simple_ai_model(description)]

\* The pieces the texts tried are made of: the keywords in mixed case, parts
\* of keywords that join into one, and other characters.
Pieces ==
    { <<"U", "r", "g", "e", "n", "t">>, <<"F", "A", "I", "L">>, error, learn,
      <<"B", "u", "y">>, <<"b", "u">>, <<"Y">>, <<"f", "a", "i">>, <<"l">>,
      <<" ">>, <<"u", "r", "g", "e", "n">>, <<"E", "a", "r", "n">> }

RECURSIVE TextsOf(_)
TextsOf(n) ==
    IF n = 0 THEN {<<>>}
    ELSE TextsOf(n - 1) \cup {t \o p : t \in TextsOf(n - 1), p \in Pieces}

Texts == TextsOf(MaxPieces)

InitClassify ==
    /\ tasks = <<>>
    /\ request = Request("none", 0, NoBody, 0, DefaultLimit)
    /\ response = Response("none", 0, <<>>, "")
    /\ deleted = {}
    /\ sessions = NoSessions
    /\ commits = <<>>
    /\ text \in Texts
    /\ prediction = NoPrediction

AnalyzeTaskSentiment ==
    /\ prediction' = analyze_task_sentiment(text)
    /\ UNCHANGED <<tasks, request, response, deleted, sessions, commits, text>>

NextClassify == AnalyzeTaskSentiment

SpecClassify == InitClassify /\ [][NextClassify]_vars

\* Letter c of the text matches letter d of a keyword, whatever c's case
Matches(c, d) ==
    c = d \/ \E n \in DOMAIN LowerCase : LowerCase[n] = d /\ UpperCase[n] = c

\* Keyword k occurs in text t at some position, letter by letter
Occurs(k, t) ==
    \E i \in 1..Len(t) :
        /\ i + Len(k) - 1 <= Len(t)
        /\ \A j \in 1..Len(k) : Matches(t[i + j - 1], k[j])

\* C6: classify answers every text with one of the three labels, matching
\* without regard to case and in priority order: Critical when the text
\* contains "urgent", "fail" or "error", even if it also contains "learn" or
\* "buy"; Growth when it contains none of those but "learn" or "buy";
\* Neutral otherwise, including for the empty text.
ClassifyByPriority ==
    prediction # NoPrediction =>
        LET label == prediction.predicted_sentiment
            critical == \E k \in {urgent, fail, error} : Occurs(k, text)
            growth == \E k \in {learn, buy} : Occurs(k, text)
        IN  /\ prediction.description = text
            /\ label \in {Critical, Growth, Neutral}
            /\ label = Critical <=> critical
            /\ label = Growth <=> (~critical /\ growth)
            /\ label = Neutral <=> (~critical /\ ~growth)
            /\ text = <<>> => label = Neutral

\* C6 witness: a text holding a Critical keyword in upper case and a Growth
\* keyword has been labelled Critical
CriticalBeforeGrowth ==
    /\ prediction.predicted_sentiment = Critical
    /\ In(<<"F", "A", "I", "L">>, text)
    /\ Occurs(buy, text)

-----------------------------------------------------------------------------
(* Properties of the handlers *)

\* The stored row with primary key task_id; used where one exists
RowOf(table, task_id) ==
    table[CHOOSE i \in DOMAIN table : table[i].id = Some(task_id)]

Exists(table, task_id) == \E i \in DOMAIN table : table[i].id = Some(task_id)

\* The rows other than the one with primary key task_id, in order
OtherRows(table, task_id) ==
    SelectSeq(table, LAMBDA row : row.id # Some(task_id))

\* C1: an update of an existing task overwrites exactly the fields present in
\* the request body with the supplied values and leaves every other field of
\* that task, its id and every other stored task unchanged.
UpdateOverwritesExactlySentFields ==
    [][ (request'.op = "update" /\ Exists(tasks, request'.task_id)) =>
          /\ Exists(tasks', request'.task_id)
          /\ LET old == RowOf(tasks, request'.task_id)
                 new == RowOf(tasks', request'.task_id)
             IN  \A f \in TaskBase :
                    new[f] = IF request'.body[f] # Unset
                             THEN request'.body[f][1] ELSE old[f]
          /\ [i \in DOMAIN tasks' |-> tasks'[i].id]
               = [i \in DOMAIN tasks |-> tasks[i].id]
          /\ OtherRows(tasks', request'.task_id)
               = OtherRows(tasks, request'.task_id)
      ]_vars

\* C2: once delete has succeeded on an id, the row is gone, and a get or a
\* second delete of that id issued next returns NotFound.
DeleteThenNotFound ==
    [][ /\ (response'.op = "delete" /\ response'.status = 200) =>
              /\ Exists(tasks, request'.task_id)
              /\ ~Exists(tasks', request'.task_id)
              /\ response'.detail = "ok"
        /\ (/\ response.op = "delete" /\ response.status = 200
            /\ request'.op \in {"read", "delete"}
            /\ request'.task_id = request.task_id) =>
              /\ response'.status = 404
              /\ response'.detail = "Task not found"
              /\ response'.body = <<>>
      ]_vars

\* C2 witness: a delete answered NotFound for an id an earlier delete removed
SecondDeleteNotFound ==
    /\ request.op = "delete"
    /\ response.status = 404
    /\ request.task_id \in deleted
    /\ tasks # <<>>

\* A creation body that passes validation
ValidCreationInput(body) ==
    /\ body.title # Unset /\ body.title # Set(None)
    /\ body.is_completed # Set(None)

\* C3: for every valid creation input, create returns a body with a non-null
\* id, the supplied title, and description and is_completed as supplied or
\* defaulted to null and false; a get of that id issued next returns the
\* same body.
CreateThenGetIdentical ==
    [][ /\ (request'.op = "create" /\ ValidCreationInput(request'.body)) =>
              /\ response'.status = 200
              /\ Len(response'.body) = 1
              /\ LET created == response'.body[1]
                     sent == request'.body
                 IN  /\ created.id # None
                     /\ created.id[1] \in Nat
                     /\ created.title = sent.title[1]
                     /\ created.description =
                          IF sent.description = Unset THEN None
                          ELSE sent.description[1]
                     /\ created.is_completed =
                          IF sent.is_completed = Unset THEN Some(FALSE)
                          ELSE sent.is_completed[1]
        /\ (/\ response.op = "create" /\ response.status = 200
            /\ request'.op = "read"
            /\ Some(request'.task_id) = response.body[1].id) =>
              /\ response'.status = 200
              /\ response'.body = response.body
      ]_vars

\* C3 witness: a create that relied on both defaults has answered
CreatedWithDefaults ==
    /\ response.op = "create"
    /\ response.status = 200
    /\ request.body.description = Unset
    /\ request.body.is_completed = Unset
    /\ Len(tasks) > 1

\* C4: all stored tasks have non-null, pairwise distinct ids, and no update
\* request, whatever its body, changes the id of a task.
IdsDistinctAndFixed ==
    [][ /\ \A i \in DOMAIN tasks' : tasks'[i].id # None
        /\ \A i, j \in DOMAIN tasks' :
              i # j => tasks'[i].id # tasks'[j].id
        /\ request'.op = "update" =>
              [i \in DOMAIN tasks' |-> tasks'[i].id]
                = [i \in DOMAIN tasks |-> tasks[i].id]
      ]_vars

\* C4 witness: an update whose body carried an id has succeeded with two
\* tasks stored
UpdatedWithIdInBody ==
    /\ response.op = "update"
    /\ response.status = 200
    /\ request.body.id # Unset
    /\ request.body.id # Set(Some(request.task_id))
    /\ request.body.is_completed # Unset
    /\ Len(tasks) > 1

\* The rows at positions offset .. offset+limit-1, positions counted from 0
Window(table, offset, limit) ==
    LET idx == {i \in DOMAIN table :
                  offset <= i - 1 /\ i - 1 <= offset + limit - 1}
    IN  SelectSeq(table, LAMBDA row : \E i \in idx : table[i] = row)

\* C5: a list request that passes validation returns at most limit tasks
\* (none when limit is negative) and never more than 100, the rows at
\* positions offset .. offset+limit-1 in storage order, and the empty
\* sequence when the store is empty or offset is at or beyond the row count.
ListReturnsWindow ==
    (response.op = "list" /\ request.limit <= 100) =>
        /\ response.status = 200
        /\ Len(response.body) <= (IF request.limit < 0 THEN 0 ELSE request.limit)
        /\ Len(response.body) <= 100
        /\ response.body = Window(tasks, request.offset, request.limit)
        /\ (tasks = <<>> \/ request.offset >= Len(tasks)) =>
              response.body = <<>>

\* C7: get, update and delete of an id with no stored row return NotFound
\* (404, "Task not found") and leave the stored tasks unchanged.
MissingIdNotFound ==
    [][ (/\ request'.op \in {"read", "update", "delete"}
         /\ ~Exists(tasks, request'.task_id)) =>
          /\ response'.status = 404
          /\ response'.detail = "Task not found"
          /\ response'.body = <<>>
          /\ tasks' = tasks
      ]_vars

\* C7 witness: an update of a missing id has been answered NotFound while
\* another task is stored
UpdateOfMissingId ==
    /\ request.op = "update"
    /\ response.status = 404
    /\ request.body.title # Unset
    /\ tasks # <<>>

\* C8 as stated: a creation request whose title is missing or the empty
\* string is rejected with a validation error and stores no row.
CreateRejectsMissingOrEmptyTitle ==
    [][ (/\ request'.op = "create"
         /\ request'.body.title \in {Unset, Set(Some(""))}) =>
          /\ response'.status = 422
          /\ tasks' = tasks
      ]_vars

\* C8 amended: a creation request whose title is missing is rejected with a
\* validation error and stores no row; the empty string is a title like any
\* other, and the request is answered with the stored task.
CreateRejectsMissingTitle ==
    [][ /\ (request'.op = "create" /\ request'.body.title = Unset) =>
              /\ response'.status = 422
              /\ tasks' = tasks
        /\ (/\ request'.op = "create"
            /\ request'.body.title = Set(Some(""))
            /\ request'.body.is_completed # Set(None)) =>
              /\ response'.status = 200
              /\ Len(tasks') = Len(tasks) + 1
              /\ tasks'[Len(tasks')].title = Some("")
              /\ response'.body = <<tasks'[Len(tasks')]>>
      ]_vars

\* C8 witness: a create without title has been rejected
CreateWithoutTitleRejected ==
    /\ request.op = "create"
    /\ request.body.title = Unset
    /\ response.status = 422
    /\ tasks # <<>>

\* C10 as stated: the id of a deleted task is never the id of a stored task
\* again.
DeletedIdNeverStoredAgain ==
    \A i \in DOMAIN tasks : tasks[i].id[1] \notin deleted

\* C10 amended: create gives the new task an id that no stored task has, one
\* more than the largest id stored (1 when the store is empty); the id of a
\* deleted task is given again once no stored id is as large.
CreateAssignsIdAboveStored ==
    [][ (response'.op = "create" /\ response'.status = 200) =>
          LET id == response'.body[1].id IN
          /\ id \notin IdsOf(tasks)
          /\ \A i \in DOMAIN tasks : tasks[i].id[1] < id[1]
          /\ id[1] = 1 \/ Some(id[1] - 1) \in IdsOf(tasks)
          /\ IdsOf(tasks') = IdsOf(tasks) \cup {id}
      ]_vars

\* C10 witness: create has returned an id that a delete had removed
CreatedWithDeletedId ==
    /\ response.op = "create"
    /\ response.status = 200
    /\ response.body[1].id[1] \in deleted
    /\ Len(tasks) > 1
====
